---- MODULE Spec2Model ----
(***************************************************************************)
(* Model of main.py: the Streamlit front end, the PDF text extraction and  *)
(* the five-node LangGraph chain parser -> evaluator -> job_roles ->       *)
(* skill_gap -> career_coach.  Texts are finite sequences of characters;   *)
(* the LLM (Generation Collaborator) is an environment that answers an     *)
(* in-flight call with a response, an exception, or never.                 *)
(***************************************************************************)
EXTENDS Integers, Sequences, FiniteSets, TLC

VARIABLES apiKey, proc, pc, upload, state, calls, replies, exc, hung,
          final_state, rendered

vars == <<apiKey, proc, pc, upload, state, calls, replies, exc, hung,
          final_state, rendered>>

(* ------------------------------ bounds --------------------------------- *)
MaxPages == 3
MaxResp == 2

Runs == {1, 2}
OneRun == {1}

(* ------------------------------ texts ---------------------------------- *)
PageTexts == {<<1>>, <<2>>}
Responses == {<<c>> : c \in 1..MaxResp}

\* what page.extract_text() gives: None, or a (possibly empty) str
None == [none |-> TRUE, s |-> <<>>]
Str(s) == [none |-> FALSE, s |-> s]
PageYields == {None, Str(<<>>)} \cup {Str(t) : t \in PageTexts}

\* reader.pages of a readable PDF
Documents == UNION {[1..n -> PageYields] : n \in 0..MaxPages}
DocsTwo == {<<Str(<<1>>)>>, <<None, Str(<<2>>)>>}

\* `if extracted:` -- None and "" are falsy
Truthy(extracted) == ~extracted.none /\ extracted.s # <<>>

\* `text += extracted` -- str + None raises TypeError
StrAdd(text, extracted) ==
  IF extracted.none THEN [raised |-> TRUE, text |-> text]
  ELSE [raised |-> FALSE, text |-> text \o extracted.s]

RECURSIVE ExtractPages(_, _)
ExtractPages(pages, text) ==
  IF Len(pages) = 0 THEN [raised |-> FALSE, text |-> text]
  ELSE LET extracted == Head(pages) IN
       IF Truthy(extracted)
       THEN LET sum == StrAdd(text, extracted) IN
            IF sum.raised THEN sum ELSE ExtractPages(Tail(pages), sum.text)
       ELSE ExtractPages(Tail(pages), text)

\* mutant: stops reading at the first page without text
RECURSIVE ExtractUntilBlank(_, _)
ExtractUntilBlank(pages, text) ==
  IF Len(pages) = 0 \/ ~Truthy(Head(pages)) THEN [raised |-> FALSE, text |-> text]
  ELSE ExtractUntilBlank(Tail(pages), text \o Head(pages).s)

get_resume_text_break(pdf_file) == ExtractUntilBlank(pdf_file, <<>>)

get_resume_text(pdf_file) == ExtractPages(pdf_file, <<>>)

(* ------------------------------ graph ---------------------------------- *)
END == "__end__"
Nodes == {"parser", "evaluator", "job_roles", "skill_gap", "career_coach"}
EntryPoint == "parser"

\* mutant: evaluator and job_roles exchanged in the chain
EdgesSwapped ==
  { <<"parser", "job_roles">>, <<"job_roles", "evaluator">>,
    <<"evaluator", "skill_gap">>, <<"skill_gap", "career_coach">>,
    <<"career_coach", END>> }

\* mutant: skill_gap wired before job_roles
EdgesGapFirst ==
  { <<"parser", "evaluator">>, <<"evaluator", "skill_gap">>,
    <<"skill_gap", "job_roles">>, <<"job_roles", "career_coach">>,
    <<"career_coach", END>> }

Edges ==
  { <<"parser", "evaluator">>, <<"evaluator", "job_roles">>,
    <<"job_roles", "skill_gap">>, <<"skill_gap", "career_coach">>,
    <<"career_coach", END>> }

Successor(n) == CHOOSE m \in Nodes \cup {END} : <<n, m>> \in Edges

\* keys of `state` each agent's prompt is filled from
Reads(n) ==
  CASE n = "parser"       -> {"resume_text"}
    [] n = "evaluator"    -> {"parsed_profile"}
    [] n = "job_roles"    -> {"parsed_profile"}
    [] n = "skill_gap"    -> {"parsed_profile", "job_roles"}
    [] n = "career_coach" -> {"evaluation", "skill_gaps"}

\* the partial update each agent returns
resume_parser_agent(response) == [k \in {"parsed_profile"} |-> response]
resume_evaluator_agent(response) == [k \in {"evaluation"} |-> response]
job_role_agent(response) == [k \in {"job_roles"} |-> response]
skill_gap_agent(response) == [k \in {"skill_gaps"} |-> response]
career_coach_agent(response) == [k \in {"action_plan"} |-> response]

\* mutant: the evaluator and the job-role agent registered under each other's name
NodeFnCrossed(n, response) ==
  CASE n = "parser"       -> resume_parser_agent(response)
    [] n = "evaluator"    -> job_role_agent(response)
    [] n = "job_roles"    -> resume_evaluator_agent(response)
    [] n = "skill_gap"    -> skill_gap_agent(response)
    [] n = "career_coach" -> career_coach_agent(response)

NodeFn(n, response) ==
  CASE n = "parser"       -> resume_parser_agent(response)
    [] n = "evaluator"    -> resume_evaluator_agent(response)
    [] n = "job_roles"    -> job_role_agent(response)
    [] n = "skill_gap"    -> skill_gap_agent(response)
    [] n = "career_coach" -> career_coach_agent(response)

\* mutant: the update replaces the record instead of being merged into it
MergeReplace(st, update) == update

\* a node's update written to the channels of the graph state
Merge(st, update) ==
  [k \in DOMAIN st \cup DOMAIN update |->
     IF k \in DOMAIN update THEN update[k] ELSE st[k]]

EmptyState == [k \in {} |-> <<>>]
NoExc == [kind |-> "none", node |-> "none"]
ReportFields == <<"parsed_profile", "evaluation", "job_roles", "skill_gaps", "action_plan">>

(* ------------------------------ state ---------------------------------- *)
Init ==
  /\ apiKey \in BOOLEAN
  /\ proc = "init"
  /\ pc = [r \in Runs |-> "idle"]
  /\ upload = [r \in Runs |-> <<>>]
  /\ state = [r \in Runs |-> EmptyState]
  /\ calls = [r \in Runs |-> <<>>]
  /\ replies = [r \in Runs |-> <<>>]
  /\ exc = [r \in Runs |-> NoExc]
  /\ hung = [r \in Runs |-> FALSE]
  /\ final_state = [r \in Runs |-> EmptyState]
  /\ rendered = [r \in Runs |-> <<>>]

(* ----------------------------- actions --------------------------------- *)
\* mutant: the key is not required
SetupNoKey ==
  /\ proc = "init"
  /\ proc' = "ready"
  /\ UNCHANGED <<apiKey, pc, upload, state, calls, replies, exc, hung,
                 final_state, rendered>>

\* module level: os.environ["GOOGLE_API_KEY"] = os.getenv("GOOGLE_API_KEY")
\* raises TypeError when getenv gives None; nothing below it is executed
Setup ==
  /\ proc = "init"
  /\ proc' = IF apiKey THEN "ready" ELSE "crashed"
  /\ UNCHANGED <<apiKey, pc, upload, state, calls, replies, exc, hung,
                 final_state, rendered>>

\* the graph runs node n of run r on the record st: the agent fills its
\* prompt from st (KeyError on a missing key) and calls the LLM
Enter(r, n, st) ==
  /\ state' = [state EXCEPT ![r] = st]
  /\ IF Reads(n) \subseteq DOMAIN st
     THEN /\ pc' = [pc EXCEPT ![r] = n]
          /\ calls' = [calls EXCEPT ![r] =
                 Append(@, [node |-> n, inputs |-> [k \in Reads(n) |-> st[k]]])]
          /\ exc' = exc
     ELSE /\ pc' = [pc EXCEPT ![r] = "failed"]
          /\ calls' = calls
          /\ exc' = [exc EXCEPT ![r] = [kind |-> "KeyError", node |-> n]]

\* main(): a file is uploaded, its text is extracted, resume_graph.invoke starts
Submit(r, pdf_file) ==
  /\ proc = "ready"
  /\ pc[r] = "idle"
  /\ upload' = [upload EXCEPT ![r] = pdf_file]
  /\ LET res == get_resume_text(pdf_file) IN
     IF res.raised
     THEN /\ pc' = [pc EXCEPT ![r] = "failed"]
          /\ exc' = [exc EXCEPT ![r] = [kind |-> "TypeError", node |-> "extract"]]
          /\ UNCHANGED <<state, calls>>
     ELSE Enter(r, EntryPoint, [k \in {"resume_text"} |-> res.text])
  /\ UNCHANGED <<apiKey, proc, replies, hung, final_state, rendered>>

\* mutant: every run works on one shared record
LlmReturnShared(r, response) ==
  /\ pc[r] \in Nodes
  /\ ~hung[r]
  /\ replies' = [replies EXCEPT ![r] = Append(@, [node |-> pc[r], response |-> response])]
  /\ LET st == Merge(state[r], NodeFn(pc[r], response))
         nxt == Successor(pc[r])
     IN  /\ state' = [q \in Runs |-> st]
         /\ IF nxt = END
            THEN /\ pc' = [pc EXCEPT ![r] = "done"]
                 /\ final_state' = [final_state EXCEPT ![r] = st]
                 /\ rendered' = [rendered EXCEPT ![r] =
                        [i \in 1..Len(ReportFields) |-> st[ReportFields[i]]]]
                 /\ UNCHANGED <<calls, exc>>
            ELSE /\ pc' = [pc EXCEPT ![r] = nxt]
                 /\ calls' = [calls EXCEPT ![r] =
                        Append(@, [node |-> nxt, inputs |-> [k \in Reads(nxt) |-> st[k]]])]
                 /\ UNCHANGED <<exc, final_state, rendered>>
  /\ UNCHANGED <<apiKey, proc, upload, hung>>

\* the LLM call of the running node returns: the agent returns its update,
\* the graph merges it and runs the next node, or ends and main() renders
LlmReturn(r, response) ==
  /\ pc[r] \in Nodes
  /\ ~hung[r]
  /\ replies' = [replies EXCEPT ![r] = Append(@, [node |-> pc[r], response |-> response])]
  /\ LET st == Merge(state[r], NodeFn(pc[r], response))
         nxt == Successor(pc[r])
     IN  IF nxt = END
         THEN /\ state' = [state EXCEPT ![r] = st]
              /\ calls' = calls
              /\ IF \A i \in 1..Len(ReportFields) : ReportFields[i] \in DOMAIN st
                 THEN /\ pc' = [pc EXCEPT ![r] = "done"]
                      /\ rendered' = [rendered EXCEPT ![r] =
                             [i \in 1..Len(ReportFields) |-> st[ReportFields[i]]]]
                      /\ exc' = exc
                 ELSE /\ pc' = [pc EXCEPT ![r] = "failed"]
                      /\ rendered' = rendered
                      /\ exc' = [exc EXCEPT ![r] = [kind |-> "KeyError", node |-> "render"]]
              /\ final_state' = [final_state EXCEPT ![r] = st]
         ELSE /\ Enter(r, nxt, st)
              /\ UNCHANGED <<final_state, rendered>>
  /\ UNCHANGED <<apiKey, proc, upload, hung>>

\* mutant: the failing node is skipped and the chain goes on
LlmRaiseSkip(r) ==
  /\ pc[r] \in Nodes
  /\ ~hung[r]
  /\ Successor(pc[r]) # END
  /\ pc' = [pc EXCEPT ![r] = Successor(pc[r])]
  /\ exc' = [exc EXCEPT ![r] = [kind |-> "GenerationError", node |-> pc[r]]]
  /\ UNCHANGED <<apiKey, proc, upload, state, calls, replies, hung,
                 final_state, rendered>>

\* the LLM call raises: nothing catches it in the agent, the graph or main()
LlmRaise(r) ==
  /\ pc[r] \in Nodes
  /\ ~hung[r]
  /\ pc' = [pc EXCEPT ![r] = "failed"]
  /\ exc' = [exc EXCEPT ![r] = [kind |-> "GenerationError", node |-> pc[r]]]
  /\ UNCHANGED <<apiKey, proc, upload, state, calls, replies, hung,
                 final_state, rendered>>

\* the LLM call never returns: llm is built without a timeout
LlmHang(r) ==
  /\ pc[r] \in Nodes
  /\ ~hung[r]
  /\ hung' = [hung EXCEPT ![r] = TRUE]
  /\ UNCHANGED <<apiKey, proc, pc, upload, state, calls, replies, exc,
                 final_state, rendered>>

Next ==
  \/ Setup
  \/ \E r \in OneRun :
       \/ \E pdf_file \in Documents : Submit(r, pdf_file)
       \/ \E response \in Responses : LlmReturn(r, response)
       \/ LlmRaise(r)
       \/ LlmHang(r)

Spec == Init /\ [][Next]_vars

\* every step that stays enabled is eventually taken
FairSpec == Spec /\ WF_vars(Next)

\* two sessions submitting at the same time
NextTwo ==
  \/ Setup
  \/ \E r \in Runs :
       \/ \E pdf_file \in DocsTwo : Submit(r, pdf_file)
       \/ \E response \in Responses : LlmReturn(r, response)
       \/ LlmRaise(r)
       \/ LlmHang(r)

SpecTwo == Init /\ [][NextTwo]_vars

(* ------------------------------ claims --------------------------------- *)
\* the order and the dependencies the specification declares for the stages
Order == <<"parser", "evaluator", "job_roles", "skill_gap", "career_coach">>
Writes(n) ==
  CASE n = "parser"       -> "parsed_profile"
    [] n = "evaluator"    -> "evaluation"
    [] n = "job_roles"    -> "job_roles"
    [] n = "skill_gap"    -> "skill_gaps"
    [] n = "career_coach" -> "action_plan"
Needs(n) ==
  CASE n = "parser"       -> {"resume_text"}
    [] n = "evaluator"    -> {"parsed_profile"}
    [] n = "job_roles"    -> {"parsed_profile"}
    [] n = "skill_gap"    -> {"parsed_profile", "job_roles"}
    [] n = "career_coach" -> {"evaluation", "skill_gaps"}
IndexOf(n) == CHOOSE i \in 1..Len(Order) : Order[i] = n
CallNodes(r) == [i \in 1..Len(calls[r]) |-> calls[r][i].node]
Terminal(r) == pc[r] \in {"done", "failed"}

\* C1: a completed run made exactly five LLM calls, one per stage, in the
\* order parser, evaluator, job_roles, skill_gap, career_coach; at any time
\* every call but possibly the last one has returned, so a stage never
\* begins before the call of the stage before it has returned.
C1_StageOrder ==
  \A r \in Runs :
    /\ Len(replies[r]) <= Len(calls[r])
    /\ Len(calls[r]) <= Len(replies[r]) + 1
    /\ \A i \in 1..Len(replies[r]) : replies[r][i].node = calls[r][i].node
    /\ pc[r] = "done" =>
         /\ Len(calls[r]) = 5
         /\ Len(replies[r]) = 5
         /\ \A i \in 1..5 : CallNodes(r)[i] = Order[i]

C1_Witness ==
  \E r \in Runs : pc[r] = "done" /\ Len(calls[r]) = 5

\* C2: in a completed run whose i-th LLM call returned ri, the final state
\* holds parsed_profile=r1, evaluation=r2, job_roles=r3, skill_gaps=r4,
\* action_plan=r5, each exactly as returned, whatever the resume text.
C2_Wiring ==
  \A r \in Runs :
    pc[r] = "done" =>
      /\ Len(replies[r]) = 5
      /\ \A i \in 1..5 :
           /\ ReportFields[i] \in DOMAIN final_state[r]
           /\ final_state[r][ReportFields[i]] = replies[r][i].response
           /\ rendered[r][i] = replies[r][i].response

C2_Witness ==
  \E r \in Runs :
    /\ pc[r] = "done"
    /\ replies[r][2].response # replies[r][3].response
    /\ replies[r][1].response # replies[r][5].response
    /\ final_state[r]["resume_text"] # <<>>

\* C3: every field other than resume_text present in a run's state was
\* written by the one stage that owns it, which returned exactly once;
\* resume_text is the text extracted at submission; and no step removes a
\* field or changes the value of a field that is already set.
C3_Owned ==
  \A r \in Runs :
    /\ \A k \in DOMAIN state[r] :
         \/ k = "resume_text"
         \/ Cardinality({i \in 1..Len(replies[r]) : Writes(replies[r][i].node) = k}) = 1
    /\ \A i \in 1..Len(replies[r]) : Writes(replies[r][i].node) \in DOMAIN state[r]
    /\ pc[r] \in Nodes \cup {"done"} =>
         /\ "resume_text" \in DOMAIN state[r]
         /\ state[r]["resume_text"] = get_resume_text(upload[r]).text

C3_Kept ==
  \A r \in Runs : \A k \in DOMAIN state[r] :
    k \in DOMAIN state'[r] /\ state'[r][k] = state[r][k]

C3_AppendOnly == []C3_Owned /\ [][C3_Kept]_vars

C3_Witness ==
  \E r \in Runs :
    /\ DOMAIN state[r] = {"resume_text", "parsed_profile", "evaluation", "job_roles"}
    /\ pc[r] = "skill_gap"

\* C4: no stage runs while a field it needs is absent: a running stage has
\* all its needed fields in the state, its prompt was filled from exactly
\* those fields, and no KeyError is ever raised.
C4_DepsPresent ==
  \A r \in Runs :
    /\ exc[r].kind # "KeyError"
    /\ pc[r] \in Nodes => Needs(pc[r]) \subseteq DOMAIN state[r]
    /\ \A i \in 1..Len(calls[r]) :
         DOMAIN calls[r][i].inputs = Needs(calls[r][i].node)

C4_Witness ==
  \E r \in Runs :
    /\ pc[r] = "career_coach"
    /\ {"evaluation", "skill_gaps"} \subseteq DOMAIN state[r]

\* C5: when the LLM call of stage k raises, the run is failed with an
\* exception raised in stage k, stage k is the last stage invoked, no field
\* of stage k or of a later stage is set, and main() gets no final state
\* and renders no result field.
C5_FailFast ==
  \A r \in Runs :
    exc[r].kind = "GenerationError" =>
      /\ pc[r] = "failed"
      /\ exc[r].node \in Nodes
      /\ Len(calls[r]) = IndexOf(exc[r].node)
      /\ calls[r][Len(calls[r])].node = exc[r].node
      /\ Len(replies[r]) = IndexOf(exc[r].node) - 1
      /\ \A j \in IndexOf(exc[r].node)..Len(Order) : Writes(Order[j]) \notin DOMAIN state[r]
      /\ DOMAIN final_state[r] = {}
      /\ rendered[r] = <<>>

C5_Witness ==
  \E r \in Runs :
    /\ pc[r] = "failed"
    /\ exc[r] = [kind |-> "GenerationError", node |-> "job_roles"]
    /\ IndexOf(exc[r].node) - 1 = 2
    /\ DOMAIN state[r] = {"resume_text", "parsed_profile", "evaluation"}

\* C6: the extracted text is the concatenation, in page order, of the texts
\* of the pages that yielded text, and extraction raises no error.
YieldedText(page) == IF page.none THEN <<>> ELSE page.s
RECURSIVE ConcatUpTo(_, _)
ConcatUpTo(pages, n) ==
  IF n = 0 THEN <<>> ELSE ConcatUpTo(pages, n - 1) \o YieldedText(pages[n])

C6_Extraction ==
  \A r \in Runs :
    pc[r] # "idle" =>
      /\ exc[r].kind # "TypeError"
      /\ "resume_text" \in DOMAIN state[r]
      /\ state[r]["resume_text"] = ConcatUpTo(upload[r], Len(upload[r]))
      /\ (Len(upload[r]) = 3 /\ ~Truthy(upload[r][2])
            /\ Truthy(upload[r][1]) /\ Truthy(upload[r][3])) =>
           state[r]["resume_text"] = upload[r][1].s \o upload[r][3].s

C6_Witness ==
  \E r \in Runs :
    /\ upload[r] = <<Str(<<1>>), None, Str(<<2>>)>>
    /\ pc[r] = "parser"
    /\ state[r]["resume_text"] = <<1, 2>>

\* C7: every run whose pipeline is running eventually reaches a terminal
\* state (done or failed).
C7_Terminates ==
  \A r \in Runs : (pc[r] \in Nodes) ~> Terminal(r)

\* C8: with two runs interleaved, each run's state holds the text of its
\* own upload and, for every other field, the response to its own call of
\* the owning stage; its prompts were filled from its own state; and a step
\* of one run leaves the state and the results of the other run untouched.
C8_Own ==
  \A r \in Runs :
    /\ \A k \in DOMAIN state[r] :
         IF k = "resume_text"
         THEN state[r][k] = get_resume_text(upload[r]).text
         ELSE \E i \in 1..Len(replies[r]) :
                Writes(replies[r][i].node) = k /\ replies[r][i].response = state[r][k]
    /\ \A i \in 1..Len(calls[r]) : \A k \in DOMAIN calls[r][i].inputs :
         k \in DOMAIN state[r] /\ calls[r][i].inputs[k] = state[r][k]
    /\ pc[r] = "idle" => DOMAIN state[r] = {}
    /\ pc[r] = "done" => final_state[r] = state[r]

C8_Untouched ==
  \A r \in Runs :
    (pc'[r] = pc[r] /\ hung'[r] = hung[r]) =>
       /\ state'[r] = state[r]
       /\ calls'[r] = calls[r]
       /\ replies'[r] = replies[r]
       /\ final_state'[r] = final_state[r]
       /\ rendered'[r] = rendered[r]

C8_Isolation == []C8_Own /\ [][C8_Untouched]_vars

C8_Witness ==
  /\ pc[1] = "done" /\ pc[2] = "done"
  /\ final_state[1]["resume_text"] # final_state[2]["resume_text"]
  /\ final_state[1]["parsed_profile"] # final_state[2]["parsed_profile"]
  /\ final_state[1]["action_plan"] # final_state[2]["action_plan"]

\* C9: when the API key is absent the process never becomes ready: no run
\* is started and no LLM call is made.
C9_NoKeyNoRun ==
  ~apiKey =>
    /\ proc # "ready"
    /\ \A r \in Runs : pc[r] = "idle" /\ calls[r] = <<>> /\ DOMAIN state[r] = {}

C9_Witness == ~apiKey /\ proc = "crashed"

\* C10: the parser's LLM call is never made with an empty resume_text.
C10_NoEmptyToParser ==
  \A r \in Runs : \A i \in 1..Len(calls[r]) :
    calls[r][i].node = "parser" => calls[r][i].inputs["resume_text"] # <<>>

====
